---- MODULE Spec2Model ----
(***************************************************************************)
(* Claim resubmission ingestion pipeline (src/main.py, class               *)
(* ClaimProcessor).                                                        *)
(*                                                                         *)
(* Python values are tagged records, so that values of different Python    *)
(* types can sit in the same field: None, pandas' NaN, str (a sequence of  *)
(* one-character strings, so lower(), strip() and `in` are computed),      *)
(* int and datetime.  An f-string is a record of its template and the      *)
(* value substituted into it.                                              *)
(***************************************************************************)
EXTENDS Integers, Sequences, FiniteSets, TLC

(***************************************************************************)
(* Bounds of the model.                                                    *)
(***************************************************************************)
\* longest run of blanks put before or after a denial reason
MaxPad == 1
\* most records one source holds in one run
MaxRows == 2
\* most process_pipeline calls on one ClaimProcessor
MaxRuns == 2

(***************************************************************************)
(* Python values.                                                          *)
(***************************************************************************)
None == [t |-> "None"]
NaN == [t |-> "nan"]
Str(s) == [t |-> "str", s |-> s]
PyInt(n) == [t |-> "int", n |-> n]
\* a datetime: proleptic Gregorian ordinal of its date, second of its day,
\* and whether it carries a UTC offset (an "aware" datetime)
DateTime(ord, sec, aware) == [t |-> "datetime", ord |-> ord, sec |-> sec, aware |-> aware]
\* an f-string: its template and the value substituted
Fmt(template, arg) == [t |-> "fstr", fmt |-> template, arg |-> arg]

IsStr(v) == v.t = "str"

\* Python truth value (`not x`, `x or y`)
Truthy(v) ==
    CASE v.t = "None" -> FALSE
      [] v.t = "str" -> Len(v.s) > 0
      [] v.t = "int" -> v.n # 0
      [] OTHER -> TRUE

UpperCase == <<"A","B","C","D","E","F","G","H","I","J","K","L","M",
               "N","O","P","Q","R","S","T","U","V","W","X","Y","Z">>
LowerCase == <<"a","b","c","d","e","f","g","h","i","j","k","l","m",
               "n","o","p","q","r","s","t","u","v","w","x","y","z">>
Whitespace == {" ", "\t", "\n", "\r"}

LowerChar(c) ==
    IF \E i \in 1..Len(UpperCase) : UpperCase[i] = c
    THEN LowerCase[CHOOSE i \in 1..Len(UpperCase) : UpperCase[i] = c]
    ELSE c

UpperChar(c) ==
    IF \E i \in 1..Len(LowerCase) : LowerCase[i] = c
    THEN UpperCase[CHOOSE i \in 1..Len(LowerCase) : LowerCase[i] = c]
    ELSE c

\* str.lower()
lower(s) == [i \in 1..Len(s) |-> LowerChar(s[i])]

\* str.strip()
strip(s) ==
    LET keep == {i \in 1..Len(s) : s[i] \notin Whitespace}
    IN  IF keep = {} THEN <<>>
        ELSE LET lo == CHOOSE i \in keep : \A j \in keep : i <= j
                 hi == CHOOSE i \in keep : \A j \in keep : j <= i
             IN  SubSeq(s, lo, hi)

\* `k in s` on two strings
Contains(s, k) ==
    \E i \in 1..(Len(s) - Len(k) + 1) : SubSeq(s, i, i + Len(k) - 1) = k

\* str.replace(c, r) for a one-character c and a replacement r of length <= 1
RECURSIVE replace(_, _, _)
replace(s, c, r) ==
    IF s = <<>> THEN <<>>
    ELSE (IF Head(s) = c THEN r ELSE <<Head(s)>>) \o replace(Tail(s), c, r)

Digits == <<"0","1","2","3","4","5","6","7","8","9">>

RECURSIVE IntText(_)
\* the decimal text of a natural number
IntText(n) ==
    IF n < 10 THEN <<Digits[n + 1]>>
    ELSE IntText(n \div 10) \o <<Digits[(n % 10) + 1]>>

\* str(v), for the values the sources pass to it
PyStr(v) ==
    CASE v.t = "str" -> v.s
      [] v.t = "nan" -> <<"n","a","n">>
      [] v.t = "None" -> <<"N","o","n","e">>
      [] v.t = "int" -> IntText(v.n)

(***************************************************************************)
(* datetime: the part of the standard library that parse_date and the age  *)
(* computation use.  The parser below reads the fixed-width forms          *)
(* YYYY-MM-DD, YYYY-MM-DD HH:MM:SS and YYYY-MM-DD HH:MM:SS+HH:MM; every    *)
(* date text the specifications draw is one on which it agrees with        *)
(* datetime.strptime(..., '%Y-%m-%d') and datetime.fromisoformat.          *)
(***************************************************************************)
IsDigit(c) == \E i \in 1..10 : Digits[i] = c
DigitVal(c) == (CHOOSE i \in 1..10 : Digits[i] = c) - 1

AllDigits(s, lo, hi) == \A i \in lo..hi : IsDigit(s[i])

RECURSIVE NumAt(_, _, _)
\* the decimal number written at s[lo..hi]
NumAt(s, lo, hi) ==
    IF hi < lo THEN 0 ELSE NumAt(s, lo, hi - 1) * 10 + DigitVal(s[hi])

IsLeap(y) == (y % 4 = 0) /\ ((y % 100 # 0) \/ (y % 400 = 0))

DaysInMonth(y, m) ==
    IF m = 2 THEN (IF IsLeap(y) THEN 29 ELSE 28)
    ELSE IF m \in {4, 6, 9, 11} THEN 30 ELSE 31

RECURSIVE DaysBeforeMonth(_, _)
DaysBeforeMonth(y, m) ==
    IF m = 1 THEN 0 ELSE DaysBeforeMonth(y, m - 1) + DaysInMonth(y, m - 1)

\* date.toordinal(): day 1 is 0001-01-01
Ordinal(y, m, d) ==
    (y - 1) * 365 + ((y - 1) \div 4) - ((y - 1) \div 100) + ((y - 1) \div 400)
    + DaysBeforeMonth(y, m) + d

\* s[1..10] is a valid YYYY-MM-DD
ValidDateText(s) ==
    /\ Len(s) >= 10
    /\ AllDigits(s, 1, 4) /\ s[5] = "-" /\ AllDigits(s, 6, 7)
    /\ s[8] = "-" /\ AllDigits(s, 9, 10)
    /\ NumAt(s, 1, 4) >= 1
    /\ NumAt(s, 6, 7) \in 1..12
    /\ NumAt(s, 9, 10) \in 1..DaysInMonth(NumAt(s, 1, 4), NumAt(s, 6, 7))

\* s[lo..lo+7] is a valid HH:MM:SS
ValidTimeText(s, lo) ==
    /\ AllDigits(s, lo, lo + 1) /\ s[lo + 2] = ":"
    /\ AllDigits(s, lo + 3, lo + 4) /\ s[lo + 5] = ":"
    /\ AllDigits(s, lo + 6, lo + 7)
    /\ NumAt(s, lo, lo + 1) < 24
    /\ NumAt(s, lo + 3, lo + 4) < 60
    /\ NumAt(s, lo + 6, lo + 7) < 60

\* s[20..25] is a valid UTC offset +HH:MM or -HH:MM
ValidOffsetText(s) ==
    /\ s[20] \in {"+", "-"}
    /\ AllDigits(s, 21, 22) /\ s[23] = ":" /\ AllDigits(s, 24, 25)
    /\ NumAt(s, 21, 22) < 24 /\ NumAt(s, 24, 25) < 60

DateOrdinal(s) == Ordinal(NumAt(s, 1, 4), NumAt(s, 6, 7), NumAt(s, 9, 10))
TimeSeconds(s, lo) ==
    NumAt(s, lo, lo + 1) * 3600 + NumAt(s, lo + 3, lo + 4) * 60 + NumAt(s, lo + 6, lo + 7)

\* datetime.strptime(s, '%Y-%m-%d'): a datetime, or "ValueError"
strptime(s) ==
    IF Len(s) = 10 /\ ValidDateText(s)
    THEN DateTime(DateOrdinal(s), 0, FALSE)
    ELSE [t |-> "ValueError"]

\* datetime.fromisoformat(s): a naive datetime, an aware one when the text
\* carries a UTC offset, or "ValueError"
fromisoformat(s) ==
    IF Len(s) = 10 /\ ValidDateText(s)
    THEN DateTime(DateOrdinal(s), 0, FALSE)
    ELSE IF Len(s) = 19 /\ ValidDateText(s) /\ s[11] = " " /\ ValidTimeText(s, 12)
    THEN DateTime(DateOrdinal(s), TimeSeconds(s, 12), FALSE)
    ELSE IF /\ Len(s) = 25 /\ ValidDateText(s) /\ s[11] = " "
            /\ ValidTimeText(s, 12) /\ ValidOffsetText(s)
    THEN DateTime(DateOrdinal(s), TimeSeconds(s, 12), TRUE)
    ELSE [t |-> "ValueError"]

\* (a - b).days of two datetimes: "TypeError" when exactly one is aware
DaysBetween(a, b) ==
    IF a.aware # b.aware THEN [t |-> "TypeError"]
    ELSE PyInt(((a.ord - b.ord) * 86400 + (a.sec - b.sec)) \div 86400)

(***************************************************************************)
(* ClaimProcessor: the constants set in __init__.                          *)
(***************************************************************************)
MissingModifier == <<"m","i","s","s","i","n","g"," ","m","o","d","i","f","i","e","r">>
IncorrectNpi == <<"i","n","c","o","r","r","e","c","t"," ","n","p","i">>
PriorAuthRequired ==
    <<"p","r","i","o","r"," ","a","u","t","h"," ","r","e","q","u","i","r","e","d">>
AuthorizationExpired ==
    <<"a","u","t","h","o","r","i","z","a","t","i","o","n"," ","e","x","p","i","r","e","d">>
IncorrectProviderType ==
    <<"i","n","c","o","r","r","e","c","t"," ","p","r","o","v","i","d","e","r"," ","t","y","p","e">>
FormIncomplete == <<"f","o","r","m"," ","i","n","c","o","m","p","l","e","t","e">>
IncorrectProcedure ==
    <<"i","n","c","o","r","r","e","c","t"," ","p","r","o","c","e","d","u","r","e">>
NotBillable == <<"n","o","t"," ","b","i","l","l","a","b","l","e">>

retryable_reasons == {MissingModifier, IncorrectNpi, PriorAuthRequired}
non_retryable_reasons == {AuthorizationExpired, IncorrectProviderType}

\* datetime(2025, 7, 30)
current_date == DateTime(Ordinal(2025, 7, 30), 0, FALSE)

\* the hardcoded table of classify_ambiguous_denial
ambiguous_retryable ==
    {<<FormIncomplete, TRUE>>, <<IncorrectProcedure, TRUE>>, <<NotBillable, FALSE>>}

heuristic_keywords ==
    << <<"i","n","c","o","m","p","l","e","t","e">>,
       <<"m","i","s","s","i","n","g">>,
       <<"w","r","o","n","g">>,
       <<"e","r","r","o","r">>,
       <<"t","y","p","o">> >>

Denied == <<"d","e","n","i","e","d">>
Approved == <<"a","p","p","r","o","v","e","d">>
Pending == <<"p","e","n","d","i","n","g">>
Unknown == <<"U","n","k","n","o","w","n">>
NoneText == <<"N","o","n","e">>

\* an exception leaving a method
Raise(exc) == [t |-> "raise", exc |-> exc]
IsRaise(v) == v.t = "raise"

(***************************************************************************)
(* ClaimProcessor: the methods of the rule engine.                         *)
(***************************************************************************)
\* normalize_denial_reason with lower() forgotten
normalize_NoLower(reason) ==
    IF ~Truthy(reason) THEN None
    ELSE IF ~IsStr(reason) THEN Raise("AttributeError")
    ELSE Str(strip(reason.s))

\* reason.lower().strip(); None for a falsy reason; a reason that is not
\* text has no lower()
normalize_denial_reason(reason) ==
    IF ~Truthy(reason) THEN None
    ELSE IF ~IsStr(reason) THEN Raise("AttributeError")
    ELSE Str(strip(lower(reason.s)))

\* the keyword heuristic, then the exact-match table, then False
HeuristicLookup(reason_lower) ==
    IF \E k \in 1..Len(heuristic_keywords) : Contains(reason_lower, heuristic_keywords[k])
    THEN TRUE
    ELSE IF \E e \in ambiguous_retryable : e[1] = reason_lower
    THEN (CHOOSE e \in ambiguous_retryable : e[1] = reason_lower)[2]
    ELSE FALSE

\* classify_ambiguous_denial taking an absent reason for retryable
classify_AbsentRetryable(reason) ==
    IF ~Truthy(reason) THEN TRUE
    ELSE HeuristicLookup(strip(lower(reason.s)))

\* called by rule 4 with None or with the normalized text
classify_ambiguous_denial(reason) ==
    IF ~Truthy(reason) THEN FALSE
    ELSE HeuristicLookup(strip(lower(reason.s)))

Verdict(eligible, reason) == [t |-> "verdict", eligible |-> eligible, reason |-> reason]

\* rule 4, on the normalized reason
RuleFour(denial_reason) ==
    IF IsRaise(denial_reason) THEN denial_reason
    ELSE IF ~Truthy(denial_reason)
    THEN (IF classify_ambiguous_denial(denial_reason)
          THEN Verdict(TRUE, Fmt("Null denial reason classified as retryable", None))
          ELSE Verdict(FALSE, Fmt("Null denial reason classified as non-retryable", None)))
    ELSE IF denial_reason.s \in retryable_reasons
    THEN Verdict(TRUE, Fmt("Known retryable reason: '{}'", denial_reason))
    ELSE IF denial_reason.s \in non_retryable_reasons
    THEN Verdict(FALSE, Fmt("Known non-retryable reason: '{}'", denial_reason))
    ELSE IF classify_ambiguous_denial(denial_reason)
    THEN Verdict(TRUE, Fmt("Ambiguous reason '{}' classified as retryable", denial_reason))
    ELSE Verdict(FALSE, Fmt("Ambiguous reason '{}' classified as non-retryable", denial_reason))

\* rule 3 with the boundary off by one (days_old < 7)
RuleThreeAge_OffByOne(c) ==
    LET days_old == DaysBetween(current_date, c.submitted_at)
    IN  IF days_old.t = "TypeError" THEN Raise("TypeError")
        ELSE IF days_old.n < 7
        THEN Verdict(FALSE, Fmt("Claim is only {} days old (need >7)", days_old))
        ELSE RuleFour(normalize_denial_reason(c.denial_reason))

\* rule 3 once submitted_at is known to be set, then rule 4
RuleThreeAge(c) ==
    LET days_old == DaysBetween(current_date, c.submitted_at)
    IN  IF days_old.t = "TypeError" THEN Raise("TypeError")
        ELSE IF days_old.n <= 7
        THEN Verdict(FALSE, Fmt("Claim is only {} days old (need >7)", days_old))
        ELSE RuleFour(normalize_denial_reason(c.denial_reason))

\* is_eligible_for_resubmission with the patient_id rule after the age rule
is_eligible_PatientAfterAge(c) ==
    IF c.status # Str(Denied)
    THEN Verdict(FALSE, Fmt("Status is '{}', not denied", c.status))
    ELSE IF ~Truthy(c.submitted_at)
    THEN Verdict(FALSE, Fmt("Submitted date is null", None))
    ELSE IF DaysBetween(current_date, c.submitted_at).t = "TypeError"
    THEN Raise("TypeError")
    ELSE IF DaysBetween(current_date, c.submitted_at).n <= 7
    THEN Verdict(FALSE, Fmt("Claim is only {} days old (need >7)",
                            DaysBetween(current_date, c.submitted_at)))
    ELSE IF ~Truthy(c.patient_id)
    THEN Verdict(FALSE, Fmt("Patient ID is null", None))
    ELSE RuleFour(normalize_denial_reason(c.denial_reason))

\* a verdict (eligible, reason), or the exception that leaves the method
is_eligible_for_resubmission(c) ==
    IF c.status # Str(Denied)
    THEN Verdict(FALSE, Fmt("Status is '{}', not denied", c.status))
    ELSE IF ~Truthy(c.patient_id)
    THEN Verdict(FALSE, Fmt("Patient ID is null", None))
    ELSE IF ~Truthy(c.submitted_at)
    THEN Verdict(FALSE, Fmt("Submitted date is null", None))
    ELSE RuleThreeAge(c)

\* the recommendations table
recommendations ==
    { <<MissingModifier, "Add the required modifier to the procedure code">>,
      <<IncorrectNpi, "Review and correct the NPI number">>,
      <<PriorAuthRequired, "Obtain prior authorization before resubmission">>,
      <<IncorrectProcedure, "Review and correct the procedure code">>,
      <<FormIncomplete, "Complete all required fields and resubmit">> }

\* generate_recommended_changes echoing the lowercased reason
generate_EchoLowered(c) ==
    LET denial_reason == c.denial_reason
    IN  IF ~Truthy(denial_reason)
        THEN Fmt("Review claim details and resubmit with corrections", None)
        ELSE IF ~IsStr(denial_reason) THEN Raise("AttributeError")
        ELSE LET reason_lower == lower(denial_reason.s)
             IN  IF \E e \in recommendations : e[1] = reason_lower
                 THEN Fmt((CHOOSE e \in recommendations : e[1] = reason_lower)[2], None)
                 ELSE Fmt("Review and correct: {}", Str(reason_lower))

generate_recommended_changes(c) ==
    LET denial_reason == c.denial_reason
    IN  IF ~Truthy(denial_reason)
        THEN Fmt("Review claim details and resubmit with corrections", None)
        ELSE IF ~IsStr(denial_reason) THEN Raise("AttributeError")
        ELSE LET reason_lower == lower(denial_reason.s)
             IN  IF \E e \in recommendations : e[1] = reason_lower
                 THEN Fmt((CHOOSE e \in recommendations : e[1] = reason_lower)[2], None)
                 ELSE Fmt("Review and correct: {}", denial_reason)

\* claim['denial_reason'] or 'Unknown'
ResubmissionReason(c) ==
    IF Truthy(c.denial_reason) THEN c.denial_reason ELSE Str(Unknown)

\* the candidate record process_pipeline builds for an eligible claim
Candidate(c) ==
    [claim_id |-> c.claim_id,
     resubmission_reason |-> ResubmissionReason(c),
     source_system |-> c.source_system,
     recommended_changes |-> generate_recommended_changes(c)]

\* the exclusion record process_pipeline builds for an ineligible claim
Exclusion(c, reason) ==
    [claim_id |-> c.claim_id,
     exclusion_reason |-> reason,
     source_system |-> c.source_system]

\* parse_date: a datetime, or None for a falsy, non-text or unparsable value
parse_date(date_str) ==
    IF ~Truthy(date_str) THEN None
    ELSE IF ~IsStr(date_str) THEN None
    ELSE LET parsed ==
                 IF Contains(date_str.s, <<"T">>)
                 THEN fromisoformat(replace(replace(date_str.s, "T", <<" ">>), "Z", <<>>))
                 ELSE strptime(date_str.s)
         IN  IF parsed.t = "ValueError" THEN None ELSE parsed

(***************************************************************************)
(* The source normalizers.  A raw record holds, for each field, a value or *)
(* Missing (the JSON key or the CSV column is not there).  A CSV row is a  *)
(* row of the DataFrame pd.read_csv returned: an empty cell is NaN there.  *)
(***************************************************************************)
Missing == [t |-> "missing"]

\* pd.isna on a scalar
isna(v) == v.t \in {"nan", "None"}

\* Series.get / dict.get: None for a key that is not there
Get(v) == IF v = Missing THEN None ELSE v

\* the body of the try of ingest_csv_source's loop: the record, or the
\* exception the except clause catches
NormalizeCsvRow(row) ==
    LET denial_reason ==
            IF Get(row.denial_reason) = Str(NoneText) \/ isna(Get(row.denial_reason))
            THEN None ELSE Get(row.denial_reason)
        patient_id ==
            IF isna(Get(row.patient_id)) \/ Get(row.patient_id) = Str(<<>>)
            THEN None ELSE Get(row.patient_id)
    IN  IF Missing \in {row.claim_id, row.procedure_code, row.status, row.submitted_at}
        THEN Raise("KeyError")
        ELSE [t |-> "claim",
              claim_id |-> Str(PyStr(row.claim_id)),
              patient_id |-> patient_id,
              procedure_code |-> Str(PyStr(row.procedure_code)),
              denial_reason |-> denial_reason,
              status |-> Str(lower(PyStr(row.status))),
              submitted_at |-> parse_date(Str(PyStr(row.submitted_at))),
              source_system |-> "alpha"]

\* the body of the try of ingest_json_source's loop; an item that is not an
\* object cannot be subscripted by a key
NormalizeJsonItem(item) ==
    IF item.t # "object" THEN Raise("TypeError")
    ELSE IF Missing \in {item.id, item.code, item.status, item.date}
    THEN Raise("KeyError")
    ELSE [t |-> "claim",
          claim_id |-> Str(PyStr(item.id)),
          patient_id |-> Get(item.member),
          procedure_code |-> Str(PyStr(item.code)),
          denial_reason |-> Get(item.error_msg),
          status |-> Str(lower(PyStr(item.status))),
          submitted_at |-> parse_date(item.date),
          source_system |-> "beta"]

(***************************************************************************)
(* The inputs the specifications draw.                                     *)
(***************************************************************************)
RECURSIVE Blanks(_)
Blanks(n) == IF n = 0 THEN <<>> ELSE <<" ">> \o Blanks(n - 1)

\* a text as written, with its first letter in upper case, and all in upper case
CaseVariants(s) ==
    {s, [i \in 1..Len(s) |-> IF i = 1 THEN UpperChar(s[i]) ELSE s[i]],
        [i \in 1..Len(s) |-> UpperChar(s[i])]}

\* denial reasons that neither a known set nor the table holds
WrongCode == <<"w","r","o","n","g"," ","c","o","d","e">>
Typo == <<"t","y","p","o">>
DataEntryError == <<"d","a","t","a"," ","e","n","t","r","y"," ","e","r","r","o","r">>
DuplicateClaim == <<"d","u","p","l","i","c","a","t","e"," ","c","l","a","i","m">>

BaseReasons ==
    retryable_reasons \cup non_retryable_reasons
    \cup {FormIncomplete, IncorrectProcedure, NotBillable}
    \cup {WrongCode, Typo, DataEntryError, DuplicateClaim, <<>>}

\* every base reason in each case variant, between 0..MaxPad blanks
ReasonTexts ==
    {Blanks(l) \o v \o Blanks(r) :
        l \in 0..MaxPad, r \in 0..MaxPad, v \in UNION {CaseVariants(b) : b \in BaseReasons}}

EngineReasons == {None} \cup {Str(s) : s \in ReasonTexts}

TwoDigits(n) == <<Digits[(n \div 10) + 1], Digits[(n % 10) + 1]>>
DateText(y, m, d) == IntText(y) \o <<"-">> \o TwoDigits(m) \o <<"-">> \o TwoDigits(d)

Midnight == <<"T","0","0",":","0","0",":","0","0">>
NoonZ == <<"T","1","2",":","0","0",":","0","0","Z">>

\* dates around the 7-day boundary below 2025-07-30 (ages 6 to 8, with and
\* without a time of day), a later date, older dates, a date that does not
\* exist, and no date
EngineDateTexts ==
    {Str(DateText(2025, 7, d) \o tail) : d \in 22..23, tail \in {<<>>, Midnight, NoonZ}}
    \cup {Str(DateText(2025, 7, 31)), Str(DateText(2025, 6, 30)),
          Str(DateText(2024, 2, 29)), Str(DateText(2025, 2, 30))}

EngineDates == {None} \cup {parse_date(s) : s \in EngineDateTexts}

PatientOne == <<"P","0","0","1">>
ClaimOne == <<"A","1","2","3">>
CodeOne == <<"9","9","2","1","3">>

\* the canonical claims of the data model: text or absent fields, a naive
\* timestamp or none
EngineClaims ==
    [t : {"claim"},
     claim_id : {Str(ClaimOne)},
     patient_id : {None, Str(<<>>), Str(PatientOne)},
     procedure_code : {Str(CodeOne)},
     denial_reason : EngineReasons,
     status : {Str(Denied), Str(Approved), Str(Pending)},
     submitted_at : EngineDates,
     source_system : {"alpha"}]

\* the rows ingest_csv_source is given, as rows of the DataFrame
CsvRows ==
    { \* the sample row A123: a known retryable reason, 29 days old
      [claim_id |-> Str(<<"A","1","2","3">>), patient_id |-> Str(<<"P","0","0","1">>), procedure_code |-> PyInt(99213),
       denial_reason |-> Str(<<"M","i","s","s","i","n","g"," ","m","o","d","i","f","i","e","r">>),
       submitted_at |-> Str(<<"2","0","2","5","-","0","7","-","0","1">>), status |-> Str(<<"d","e","n","i","e","d">>)],
      \* the sample row A125: an empty patient_id cell
      [claim_id |-> Str(<<"A","1","2","5">>), patient_id |-> NaN, procedure_code |-> PyInt(99215),
       denial_reason |-> Str(<<"A","u","t","h","o","r","i","z","a","t","i","o","n"," ","e","x","p","i","r","e","d">>),
       submitted_at |-> Str(<<"2","0","2","5","-","0","7","-","0","5">>), status |-> Str(<<"d","e","n","i","e","d">>)],
      \* the sample row A126: the text None as denial reason (read_csv keeps it
    \* as text unless the pandas build lists None among its NA values)
      [claim_id |-> Str(<<"A","1","2","6">>), patient_id |-> Str(<<"P","0","0","3">>), procedure_code |-> PyInt(99381),
       denial_reason |-> Str(<<"N","o","n","e">>),
       submitted_at |-> Str(<<"2","0","2","5","-","0","7","-","1","5">>), status |-> Str(<<"a","p","p","r","o","v","e","d">>)],
      \* a row whose claim_id cell is empty
      [claim_id |-> NaN, patient_id |-> Str(<<"P","0","0","2">>), procedure_code |-> PyInt(99214),
       denial_reason |-> Str(<<"I","n","c","o","r","r","e","c","t"," ","N","P","I">>),
       submitted_at |-> Str(<<"2","0","2","5","-","0","7","-","1","0">>), status |-> Str(<<"d","e","n","i","e","d">>)],
      \* a row of a file that has no status column
      [claim_id |-> Str(<<"A","1","3","0">>), patient_id |-> Str(<<"P","0","0","5">>), procedure_code |-> PyInt(99213),
       denial_reason |-> Str(<<"M","i","s","s","i","n","g"," ","m","o","d","i","f","i","e","r">>),
       submitted_at |-> Str(<<"2","0","2","5","-","0","7","-","0","1">>), status |-> Missing],
      \* a row whose denial reason has a blank before it
      [claim_id |-> Str(<<"A","1","2","8">>), patient_id |-> Str(<<"P","0","0","4">>), procedure_code |-> PyInt(99401),
       denial_reason |-> Str(<<" ","P","r","i","o","r"," ","a","u","t","h"," ","r","e","q","u","i","r","e","d">>),
       submitted_at |-> Str(<<"2","0","2","5","-","0","7","-","2","0">>), status |-> Str(<<"d","e","n","i","e","d">>)],
      \* a row whose denial_reason cell is empty
      [claim_id |-> Str(<<"A","1","2","9">>), patient_id |-> Str(<<"P","0","0","6">>), procedure_code |-> PyInt(99213),
       denial_reason |-> NaN,
       submitted_at |-> Str(<<"2","0","2","5","-","0","7","-","0","1">>), status |-> Str(<<"d","e","n","i","e","d">>)] }

\* the items ingest_json_source is given: objects, and a bare number
JsonItems ==
    { \* the sample item B988
      [t |-> "object", id |-> Str(<<"B","9","8","8">>), member |-> Str(<<"P","0","1","1">>), code |-> Str(<<"9","9","2","1","4">>),
       error_msg |-> Str(<<"M","i","s","s","i","n","g"," ","m","o","d","i","f","i","e","r">>),
       date |-> Str(<<"2","0","2","5","-","0","7","-","0","9","T","0","0",":","0","0",":","0","0">>), status |-> Str(<<"d","e","n","i","e","d">>)],
      \* the sample item B989: a null error_msg
      [t |-> "object", id |-> Str(<<"B","9","8","9">>), member |-> Str(<<"P","0","1","2">>), code |-> Str(<<"9","9","2","1","5">>),
       error_msg |-> None,
       date |-> Str(<<"2","0","2","5","-","0","7","-","1","0","T","0","0",":","0","0",":","0","0">>), status |-> Str(<<"a","p","p","r","o","v","e","d">>)],
      \* the sample item B990: a null member
      [t |-> "object", id |-> Str(<<"B","9","9","0">>), member |-> None, code |-> Str(<<"9","9","4","0","1">>),
       error_msg |-> Str(<<"i","n","c","o","r","r","e","c","t"," ","p","r","o","c","e","d","u","r","e">>),
       date |-> Str(<<"2","0","2","5","-","0","7","-","0","1","T","0","0",":","0","0",":","0","0">>), status |-> Str(<<"d","e","n","i","e","d">>)],
      \* an item without the id key
      [t |-> "object", id |-> Missing, member |-> Str(<<"P","0","1","3">>), code |-> Str(<<"9","9","2","1","3">>),
       error_msg |-> Str(<<"M","i","s","s","i","n","g"," ","m","o","d","i","f","i","e","r">>),
       date |-> Str(<<"2","0","2","5","-","0","7","-","0","1","T","0","0",":","0","0",":","0","0">>), status |-> Str(<<"d","e","n","i","e","d">>)],
      \* an item whose member and error_msg hold the text None
      [t |-> "object", id |-> Str(<<"B","9","9","1">>), member |-> Str(<<"N","o","n","e">>), code |-> Str(<<"9","9","2","1","3">>),
       error_msg |-> Str(<<"N","o","n","e">>),
       date |-> Str(<<"2","0","2","5","-","0","7","-","0","1","T","0","0",":","0","0",":","0","0">>), status |-> Str(<<"d","e","n","i","e","d">>)],
      \* an item whose member and error_msg are empty texts
      [t |-> "object", id |-> Str(<<"B","9","9","2">>), member |-> Str(<<>>), code |-> Str(<<"9","9","2","1","3">>),
       error_msg |-> Str(<<>>),
       date |-> Str(<<"2","0","2","5","-","0","7","-","0","1","T","0","0",":","0","0",":","0","0">>), status |-> Str(<<"d","e","n","i","e","d">>)],
      \* an item whose error_msg is a number
      [t |-> "object", id |-> Str(<<"B","9","9","3">>), member |-> Str(<<"P","0","1","4">>), code |-> Str(<<"9","9","2","1","3">>),
       error_msg |-> PyInt(42),
       date |-> Str(<<"2","0","2","5","-","0","7","-","0","1","T","0","0",":","0","0",":","0","0">>), status |-> Str(<<"d","e","n","i","e","d">>)],
      \* an item whose date carries a UTC offset
      [t |-> "object", id |-> Str(<<"B","9","9","4">>), member |-> Str(<<"P","0","1","5">>), code |-> Str(<<"9","9","2","1","3">>),
       error_msg |-> Str(<<"M","i","s","s","i","n","g"," ","m","o","d","i","f","i","e","r">>),
       date |-> Str(<<"2","0","2","5","-","0","7","-","0","1","T","0","0",":","0","0",":","0","0","+","0","5",":","0","0">>), status |-> Str(<<"d","e","n","i","e","d">>)],
      \* an item whose error_msg has a blank after it
      [t |-> "object", id |-> Str(<<"B","9","9","5">>), member |-> Str(<<"P","0","1","6">>), code |-> Str(<<"9","9","2","1","3">>),
       error_msg |-> Str(<<"I","n","c","o","r","r","e","c","t"," ","N","P","I"," ">>),
       date |-> Str(<<"2","0","2","5","-","0","7","-","0","1","T","0","0",":","0","0",":","0","0","Z">>), status |-> Str(<<"d","e","n","i","e","d">>)],
      \* an item that is not an object
      PyInt(7) }

(***************************************************************************)
(* State.                                                                  *)
(***************************************************************************)
VARIABLES
    \* process_pipeline on one ClaimProcessor
    pc,                      \* where process_pipeline is: idle, ingest_csv,
                             \* ingest_json, classify, or raised
    runs,                    \* process_pipeline calls so far
    metrics,                 \* self.metrics
    unified_claims,          \* self.unified_claims
    csv_rows,                \* the rows ingest_csv_source has iterated over, in order
    json_items,              \* the items ingest_json_source has iterated over, in order
    csv_records,             \* records of ingest_csv_source
    json_records,            \* records of ingest_json_source
    csv_failed,              \* ingest_csv_source returned [] from its outer except
    json_failed,             \* ingest_json_source returned [] from its outer except
    i,                       \* position of the loop over unified_claims
    resubmission_candidates, \* the list process_pipeline saves and returns
    excluded_claims,         \* the list process_pipeline saves
    \* one call of each rule engine method on one claim
    step, claim, verdict, recommendation, output

vars == <<pc, runs, metrics, unified_claims, csv_rows, json_items, csv_records,
          json_records, csv_failed, json_failed, i, resubmission_candidates,
          excluded_claims, step, claim, verdict, recommendation, output>>

pipeline_vars == <<pc, runs, metrics, unified_claims, csv_rows, json_items, csv_records,
                   json_records, csv_failed, json_failed, i, resubmission_candidates,
                   excluded_claims>>

engine_vars == <<step, claim, verdict, recommendation, output>>

Unset == [t |-> "unset"]

MetricNames == {"total_processed", "source_alpha_count", "source_beta_count",
                "resubmission_candidates", "excluded_claims", "malformed_records"}

\* ClaimProcessor.__init__
InitProcessor ==
    /\ pc = "idle"
    /\ runs = 0
    /\ metrics = [k \in MetricNames |-> 0]
    /\ unified_claims = <<>>
    /\ csv_rows = <<>> /\ json_items = <<>>
    /\ csv_records = <<>> /\ json_records = <<>>
    /\ csv_failed = FALSE /\ json_failed = FALSE
    /\ i = 0
    /\ resubmission_candidates = <<>>
    /\ excluded_claims = <<>>

NoCall ==
    /\ step = "none" /\ claim = Unset /\ verdict = Unset
    /\ recommendation = Unset /\ output = Unset

Init == InitProcessor /\ NoCall

(***************************************************************************)
(* process_pipeline.                                                       *)
(***************************************************************************)
\* one more metric count
Incremented(m, k) == [m EXCEPT ![k] = @ + 1]

\* process_pipeline is called: ingest_csv_source starts
StartPipeline ==
    /\ pc = "idle" /\ runs < MaxRuns
    /\ pc' = "ingest_csv"
    /\ runs' = runs + 1
    /\ csv_rows' = <<>> /\ json_items' = <<>>
    /\ csv_records' = <<>> /\ json_records' = <<>>
    /\ csv_failed' = FALSE /\ json_failed' = FALSE
    /\ UNCHANGED <<metrics, unified_claims, i, resubmission_candidates, excluded_claims>>
    /\ UNCHANGED engine_vars

\* pd.read_csv raises (the file cannot be read or parsed): the outer except
\* returns [], and ingest_json_source starts
CsvUnreadable ==
    /\ pc = "ingest_csv" /\ csv_rows = <<>>
    /\ csv_failed' = TRUE
    /\ pc' = "ingest_json"
    /\ UNCHANGED <<runs, metrics, unified_claims, csv_rows, json_items, csv_records,
                   json_records, json_failed, i, resubmission_candidates, excluded_claims>>
    /\ UNCHANGED engine_vars

\* one turn of the loop over df.iterrows()
CsvReadRow ==
    /\ pc = "ingest_csv"
    /\ Len(csv_rows) + Len(json_items) < MaxRows
    /\ \E row \in CsvRows :
         LET record == NormalizeCsvRow(row)
         IN  /\ csv_rows' = Append(csv_rows, row)
             /\ IF IsRaise(record)
                THEN /\ metrics' = Incremented(metrics, "malformed_records")
                     /\ UNCHANGED csv_records
                ELSE /\ csv_records' = Append(csv_records, record)
                     /\ metrics' = Incremented(metrics, "source_alpha_count")
    /\ UNCHANGED <<pc, runs, unified_claims, json_items, json_records, csv_failed,
                   json_failed, i, resubmission_candidates, excluded_claims>>
    /\ UNCHANGED engine_vars

\* ingest_csv_source returns its records; ingest_json_source starts
CsvReturn ==
    /\ pc = "ingest_csv"
    /\ pc' = "ingest_json"
    /\ UNCHANGED <<runs, metrics, unified_claims, csv_rows, json_items, csv_records,
                   json_records, csv_failed, json_failed, i, resubmission_candidates,
                   excluded_claims>>
    /\ UNCHANGED engine_vars

\* what process_pipeline does between ingest_json_source's return of
\* `records` and its loop over the claims
Combine(records) ==
    /\ unified_claims' = csv_records \o records
    /\ metrics' = [metrics EXCEPT !["total_processed"] = Len(csv_records \o records)]
    /\ resubmission_candidates' = <<>>
    /\ excluded_claims' = <<>>
    /\ i' = 1
    /\ pc' = "classify"

\* open or json.load raises: the outer except returns []
JsonUnreadable ==
    /\ pc = "ingest_json" /\ json_items = <<>>
    /\ json_failed' = TRUE
    /\ Combine(<<>>)
    /\ UNCHANGED <<runs, csv_rows, json_items, csv_records, json_records, csv_failed>>
    /\ UNCHANGED engine_vars

\* one turn of the loop over data
JsonReadItem ==
    /\ pc = "ingest_json"
    /\ Len(csv_rows) + Len(json_items) < MaxRows
    /\ \E item \in JsonItems :
         LET record == NormalizeJsonItem(item)
         IN  /\ json_items' = Append(json_items, item)
             /\ IF IsRaise(record)
                THEN /\ metrics' = Incremented(metrics, "malformed_records")
                     /\ UNCHANGED json_records
                ELSE /\ json_records' = Append(json_records, record)
                     /\ metrics' = Incremented(metrics, "source_beta_count")
    /\ UNCHANGED <<pc, runs, unified_claims, csv_rows, csv_records, csv_failed,
                   json_failed, i, resubmission_candidates, excluded_claims>>
    /\ UNCHANGED engine_vars

\* ingest_json_source returns its records
JsonReturn ==
    /\ pc = "ingest_json"
    /\ Combine(json_records)
    /\ UNCHANGED <<runs, csv_rows, json_items, csv_records, json_records, csv_failed,
                   json_failed>>
    /\ UNCHANGED engine_vars

\* the body of the loop over unified_claims, for claim c: the candidate, the
\* exclusion, or the exception that leaves process_pipeline
ClassifyClaim(c) ==
    LET v == is_eligible_for_resubmission(c)
    IN  IF IsRaise(v) THEN v
        ELSE IF v.eligible
        THEN (IF IsRaise(generate_recommended_changes(c))
              THEN generate_recommended_changes(c)
              ELSE [t |-> "candidate", rec |-> Candidate(c)])
        ELSE [t |-> "excluded", rec |-> Exclusion(c, v.reason)]

\* one turn of the loop over unified_claims
Classify ==
    /\ pc = "classify" /\ i <= Len(unified_claims)
    /\ LET out == ClassifyClaim(unified_claims[i])
       IN  CASE out.t = "raise" ->
                  /\ pc' = "raised"
                  /\ UNCHANGED <<metrics, i, resubmission_candidates, excluded_claims>>
             [] out.t = "candidate" ->
                  /\ resubmission_candidates' = Append(resubmission_candidates, out.rec)
                  /\ metrics' = Incremented(metrics, "resubmission_candidates")
                  /\ i' = i + 1
                  /\ UNCHANGED <<pc, excluded_claims>>
             [] out.t = "excluded" ->
                  /\ excluded_claims' = Append(excluded_claims, out.rec)
                  /\ metrics' = Incremented(metrics, "excluded_claims")
                  /\ i' = i + 1
                  /\ UNCHANGED <<pc, resubmission_candidates>>
    /\ UNCHANGED <<runs, unified_claims, csv_rows, json_items, csv_records, json_records,
                   csv_failed, json_failed>>
    /\ UNCHANGED engine_vars

\* the loop is over: the lists are saved, the metrics logged, and
\* process_pipeline returns resubmission_candidates
Finish ==
    /\ pc = "classify" /\ i > Len(unified_claims)
    /\ pc' = "idle"
    /\ csv_rows' = <<>> /\ json_items' = <<>>
    /\ csv_records' = <<>> /\ json_records' = <<>>
    /\ csv_failed' = FALSE /\ json_failed' = FALSE
    /\ i' = 0
    /\ UNCHANGED <<runs, metrics, unified_claims, resubmission_candidates, excluded_claims>>
    /\ UNCHANGED engine_vars

Next ==
    \/ StartPipeline
    \/ CsvUnreadable
    \/ CsvReadRow
    \/ CsvReturn
    \/ JsonUnreadable
    \/ JsonReadItem
    \/ JsonReturn
    \/ Classify
    \/ Finish

Spec == Init /\ [][Next]_vars

(***************************************************************************)
(* The rule engine's methods, each called once on one canonical claim.     *)
(***************************************************************************)
EngineInit ==
    /\ InitProcessor
    /\ step = "claim"
    /\ claim \in EngineClaims
    /\ verdict = Unset /\ recommendation = Unset /\ output = Unset

\* is_eligible_for_resubmission(claim)
Evaluate ==
    /\ step = "claim"
    /\ verdict' = is_eligible_for_resubmission(claim)
    /\ step' = "evaluated"
    /\ UNCHANGED <<claim, recommendation, output>>
    /\ UNCHANGED pipeline_vars

\* generate_recommended_changes(claim)
Recommend ==
    /\ step = "evaluated"
    /\ recommendation' = generate_recommended_changes(claim)
    /\ step' = "recommended"
    /\ UNCHANGED <<claim, verdict, output>>
    /\ UNCHANGED pipeline_vars

\* the record the loop of process_pipeline builds for the claim
Emit ==
    /\ step = "recommended"
    /\ output' = ClassifyClaim(claim)
    /\ step' = "emitted"
    /\ UNCHANGED <<claim, verdict, recommendation>>
    /\ UNCHANGED pipeline_vars

EngineNext == Evaluate \/ Recommend \/ Emit

EngineSpec == EngineInit /\ [][EngineNext]_vars

(***************************************************************************)
(* The claims about the rule engine, checked under EngineSpec.             *)
(***************************************************************************)
\* the verdict of the claim is known
Evaluated == step \in {"evaluated", "recommended", "emitted"}

\* age in whole days below 2025-07-30: the difference of the dates, less one
\* day when the claim was submitted after midnight
AgeDays(c) ==
    (Ordinal(2025, 7, 30) - c.submitted_at.ord) - (IF c.submitted_at.sec > 0 THEN 1 ELSE 0)

\* the reference retryability policy, on the lowercased, trimmed text
ReferencePolicy(text) ==
    CASE text \in {MissingModifier, IncorrectNpi, PriorAuthRequired} -> TRUE
      [] text \in {AuthorizationExpired, IncorrectProviderType} -> FALSE
      [] OTHER ->
           IF \E k \in 1..Len(heuristic_keywords) : Contains(text, heuristic_keywords[k])
           THEN TRUE
           ELSE CASE text = FormIncomplete -> TRUE
                  [] text = IncorrectProcedure -> TRUE
                  [] text = NotBillable -> FALSE
                  [] OTHER -> FALSE

\* the text rule 4 decides on: empty for an absent reason
ReasonText(c) == IF c.denial_reason = None THEN <<>> ELSE strip(lower(c.denial_reason.s))

Rule1Fails(c) == c.status.s # Denied
Rule2Fails(c) == c.patient_id \in {None, Str(<<>>)}
Rule3Fails(c) == c.submitted_at = None \/ AgeDays(c) <= 7
Rule4Fails(c) == ~ReferencePolicy(ReasonText(c))

\* the lowest-numbered rule the claim fails, 0 when it passes all four
FirstFailing(c) ==
    IF Rule1Fails(c) THEN 1
    ELSE IF Rule2Fails(c) THEN 2
    ELSE IF Rule3Fails(c) THEN 3
    ELSE IF Rule4Fails(c) THEN 4
    ELSE 0

Rule3Templates == {"Submitted date is null", "Claim is only {} days old (need >7)"}
Rule4FailTemplates ==
    {"Null denial reason classified as non-retryable",
     "Known non-retryable reason: '{}'",
     "Ambiguous reason '{}' classified as non-retryable"}
Rule4PassTemplates ==
    {"Null denial reason classified as retryable",
     "Known retryable reason: '{}'",
     "Ambiguous reason '{}' classified as retryable"}

\* C1: the verdict of every canonical claim is decided by the first of the
\* rules status, patient_id, submitted_at/age, denial reason that it fails:
\* the claim is eligible exactly when it fails none, and the justification is
\* that of the lowest-numbered failing rule, whatever the later fields are.
C1_FirstFailingRuleDecides ==
    Evaluated =>
        /\ verdict.t = "verdict"
        /\ verdict.eligible <=> (FirstFailing(claim) = 0)
        /\ FirstFailing(claim) = 1 =>
               verdict.reason = Fmt("Status is '{}', not denied", claim.status)
        /\ FirstFailing(claim) = 2 => verdict.reason = Fmt("Patient ID is null", None)
        /\ FirstFailing(claim) = 3 => verdict.reason.fmt \in Rule3Templates
        /\ FirstFailing(claim) = 4 => verdict.reason.fmt \in Rule4FailTemplates
        /\ FirstFailing(claim) = 0 => verdict.reason.fmt \in Rule4PassTemplates

\* a denied claim without patient_id whose reason is known non-retryable has
\* been evaluated, and the justification is that of rule 2
C1_Witness ==
    /\ Evaluated
    /\ claim.status = Str(Denied)
    /\ claim.patient_id = None
    /\ claim.submitted_at # None /\ AgeDays(claim) > 7
    /\ ReasonText(claim) = AuthorizationExpired
    /\ verdict.reason.fmt = "Patient ID is null"

\* C2: for every denial reason that reaches rule 4, the outcome is the
\* reference policy on the lowercased, trimmed text (known retryable, then
\* known non-retryable, then the stems, then the table, then false); the two
\* known sets are disjoint, and a reason classifies as its lower-case form.
C2_RetryabilityIsReferencePolicy ==
    /\ retryable_reasons \cap non_retryable_reasons = {}
    /\ (Evaluated /\ FirstFailing(claim) \notin 1..3 /\ claim.denial_reason # None) =>
          /\ verdict.t = "verdict"
          /\ verdict.eligible = ReferencePolicy(strip(lower(claim.denial_reason.s)))
          /\ verdict.eligible =
                 RuleFour(normalize_denial_reason(Str(lower(claim.denial_reason.s)))).eligible

\* a known retryable reason written with upper-case letters and a blank
\* around it has reached rule 4 and made its claim eligible
C2_Witness ==
    /\ Evaluated /\ FirstFailing(claim) = 0
    /\ claim.denial_reason # None
    /\ lower(claim.denial_reason.s) # claim.denial_reason.s
    /\ strip(claim.denial_reason.s) # claim.denial_reason.s
    /\ ReasonText(claim) \in retryable_reasons
    /\ verdict.eligible

\* C3: a claim that passes rules 1 and 2 and has a date is rejected by rule 3
\* when its age in whole days below 2025-07-30 is 7 or less, with the age in
\* the justification, and is passed on to rule 4 when the age is 8 or more.
C3_AgeBoundary ==
    (/\ Evaluated
     /\ ~Rule1Fails(claim) /\ ~Rule2Fails(claim)
     /\ claim.submitted_at # None) =>
        /\ verdict.t = "verdict"
        /\ AgeDays(claim) <= 7 =>
              /\ ~verdict.eligible
              /\ verdict.reason =
                     Fmt("Claim is only {} days old (need >7)", PyInt(AgeDays(claim)))
        /\ AgeDays(claim) >= 8 =>
              verdict.reason.fmt \in Rule4FailTemplates \cup Rule4PassTemplates

\* a claim exactly 7 days old, with a retryable reason, has been rejected
C3_Witness ==
    /\ Evaluated
    /\ ~Rule1Fails(claim) /\ ~Rule2Fails(claim)
    /\ claim.submitted_at # None /\ AgeDays(claim) = 7
    /\ ~Rule4Fails(claim)
    /\ ~verdict.eligible
    /\ verdict.reason.arg = PyInt(7)

\* the denial reason is absent or empty
ReasonAbsent(c) == c.denial_reason \in {None, Str(<<>>)}

\* C4: a claim that passes rules 1 to 3 with an absent or empty denial reason
\* gets the classifier's verdict on the absent input, which is what the
\* heuristic and table give for the empty text; the resubmission_reason of
\* such a claim is the literal Unknown.
C4_AbsentReasonClassified ==
    (Evaluated /\ FirstFailing(claim) \notin 1..3 /\ ReasonAbsent(claim)) =>
        /\ verdict.t = "verdict"
        /\ verdict.eligible = HeuristicLookup(<<>>)
        /\ verdict.reason.fmt =
               (IF HeuristicLookup(<<>>)
                THEN "Null denial reason classified as retryable"
                ELSE "Null denial reason classified as non-retryable")
        /\ ResubmissionReason(claim) = Str(Unknown)
        /\ (step = "emitted" /\ output.t = "candidate") =>
               output.rec.resubmission_reason = Str(Unknown)

\* a denied claim of a known patient, older than 7 days and without a denial
\* reason, has gone through the loop body
C4_Witness ==
    /\ step = "emitted"
    /\ FirstFailing(claim) \notin 1..3
    /\ claim.denial_reason = None
    /\ verdict.reason.fmt = "Null denial reason classified as non-retryable"
    /\ output.t = "excluded"

\* the recommendation has been generated
Recommended == step \in {"recommended", "emitted"}

MappedReasons ==
    {MissingModifier, IncorrectNpi, PriorAuthRequired, IncorrectProcedure, FormIncomplete}

\* C9: generate_recommended_changes returns the generic review-and-resubmit
\* instruction for an absent reason, the mapped instruction for a reason that
\* is, case-insensitively, one of the five mapped reasons, and for every other
\* reason a generic instruction that carries the reason text as it was given.
C9_Recommendation ==
    Recommended =>
        /\ ReasonAbsent(claim) =>
               recommendation = Fmt("Review claim details and resubmit with corrections", None)
        /\ (~ReasonAbsent(claim) /\ lower(claim.denial_reason.s) \in MappedReasons) =>
               /\ \E e \in recommendations :
                     e[1] = lower(claim.denial_reason.s) /\ recommendation = Fmt(e[2], None)
               /\ lower(claim.denial_reason.s) = MissingModifier =>
                     recommendation.fmt = "Add the required modifier to the procedure code"
        /\ (~ReasonAbsent(claim) /\ lower(claim.denial_reason.s) \notin MappedReasons) =>
               recommendation = Fmt("Review and correct: {}", claim.denial_reason)

\* a reason that is not mapped and has upper-case letters got the generic
\* instruction with the reason as given
C9_Witness ==
    /\ Recommended
    /\ ~ReasonAbsent(claim)
    /\ lower(claim.denial_reason.s) \notin MappedReasons
    /\ lower(claim.denial_reason.s) # claim.denial_reason.s
    /\ recommendation.fmt = "Review and correct: {}"
    /\ recommendation.arg = claim.denial_reason

(***************************************************************************)
(* The claims about ingestion and process_pipeline, checked under Spec.    *)
(***************************************************************************)
\* C5: no exception ever propagates out of process_pipeline, whatever the
\* fields of the records hold.
C5_NoExceptionPropagates == pc # "raised"

\* a sentinel null marker: the text None, the format's own absence marker
\* (an absent key, null, an empty cell), or the empty text
IsSentinel(v) == v \in {Missing, None, NaN, Str(NoneText), Str(<<>>)}

\* the step appended a record to a source's list
CsvAppended == Len(csv_records') = Len(csv_records) + 1
JsonAppended == Len(json_records') = Len(json_records) + 1

\* C6: both normalizers turn every sentinel null marker in patient_id and in
\* denial_reason into an absent field of the canonical claim.
C6_SentinelsBecomeAbsent ==
    [][ /\ CsvAppended =>
             LET row == csv_rows'[Len(csv_rows')]
                 rec == csv_records'[Len(csv_records')]
             IN  /\ IsSentinel(row.patient_id) => rec.patient_id = None
                 /\ IsSentinel(row.denial_reason) => rec.denial_reason = None
        /\ JsonAppended =>
             LET item == json_items'[Len(json_items')]
                 rec == json_records'[Len(json_records')]
             IN  /\ IsSentinel(item.member) => rec.patient_id = None
                 /\ IsSentinel(item.error_msg) => rec.denial_reason = None
      ]_vars

\* a required field of a raw record is not there
FieldMissing(v) == v \in {Missing, None, NaN}
CsvRowMalformed(row) ==
    FieldMissing(row.claim_id) \/ FieldMissing(row.procedure_code) \/ FieldMissing(row.status)
JsonItemMalformed(item) ==
    \/ item.t # "object"
    \/ FieldMissing(item.id) \/ FieldMissing(item.code) \/ FieldMissing(item.status)

\* C7: a record that lacks a required field is dropped, adds one to
\* malformed_records and nothing to its source's count, and leaves the other
\* records of the source in place and in order; a source that cannot be read
\* yields no record, and the records of the other source all reach the
\* outputs.
C7_FailuresAreIsolated ==
    [][ /\ Len(csv_rows') = Len(csv_rows) + 1 =>
             IF CsvRowMalformed(csv_rows'[Len(csv_rows')])
             THEN /\ csv_records' = csv_records
                  /\ metrics' = Incremented(metrics, "malformed_records")
             ELSE /\ CsvAppended
                  /\ SubSeq(csv_records', 1, Len(csv_records)) = csv_records
                  /\ metrics' = Incremented(metrics, "source_alpha_count")
        /\ Len(json_items') = Len(json_items) + 1 =>
             IF JsonItemMalformed(json_items'[Len(json_items')])
             THEN /\ json_records' = json_records
                  /\ metrics' = Incremented(metrics, "malformed_records")
             ELSE /\ JsonAppended
                  /\ SubSeq(json_records', 1, Len(json_records)) = json_records
                  /\ metrics' = Incremented(metrics, "source_beta_count")
        /\ (pc' = "classify" /\ csv_failed') =>
             csv_records' = <<>> /\ unified_claims' = json_records'
        /\ (pc' = "classify" /\ json_failed') => unified_claims' = csv_records'
        /\ (pc = "classify" /\ pc' = "idle") =>
             Len(resubmission_candidates) + Len(excluded_claims) = Len(unified_claims)
      ]_vars

\* C8: over any sequence of runs on one ClaimProcessor, every metric is zero
\* when a run starts, and no step ever decreases a metric.
C8_MetricsStartAtZeroAndGrow ==
    [][ /\ (pc = "idle" /\ pc' = "ingest_csv") => \A k \in MetricNames : metrics'[k] = 0
        /\ \A k \in MetricNames : metrics'[k] >= metrics[k]
      ]_vars

\* C10: every candidate whose denial reason is, lowercased and trimmed, a
\* known retryable reason carries that reason's mapped instruction, never the
\* generic one.
C10_KnownRetryableGetsMappedInstruction ==
    \A k \in 1..Len(resubmission_candidates) :
        LET cand == resubmission_candidates[k]
        IN  (/\ IsStr(cand.resubmission_reason)
             /\ strip(lower(cand.resubmission_reason.s)) \in retryable_reasons) =>
                \E e \in recommendations :
                    /\ e[1] = strip(lower(cand.resubmission_reason.s))
                    /\ cand.recommended_changes = Fmt(e[2], None)

====
